---- MODULE Spec2Model ----
(***************************************************************************)
(* TPT Preview Maker (src/tpt_preview.py): the page-selection widgets, the *)
(* typed-range parser, the ingest of uploads and the "Generate Previews"   *)
(* loop with rasterize_pages_with_watermark, as a state machine over one   *)
(* Streamlit script run after another.                                     *)
(*                                                                         *)
(* Text is a sequence of one-character strings.  A Python list is a        *)
(* sequence, a Python set a set, the session's dict of files a sequence of *)
(* entries in insertion order, each carrying its key.                      *)
(***************************************************************************)
EXTENDS Integers, Sequences, FiniteSets, TLC

VARIABLES
    files,          \* st.session_state.files, in insertion order
    pc,             \* position of the running script
    fi,             \* index of the file the per-file loop / generate loop is at
    uploaded,       \* the uploader's batch of this run
    errors,         \* st.error messages of the ingest of this run
    lastN,          \* N of the global 'First N' helper when it was just applied, else 0
    btn,            \* the per-file button that was just handled ("" when none)
    rng,            \* the text of the ranges input that was just handled
    selBefore,      \* selected_pages of the current file before the last directive or checkbox loop
    checked,        \* the pages whose checkbox returned true in the last checkbox loop
    skip_empty,     \* the 'skip files with no selected pages' checkbox of this run
    failing,        \* the pages whose rasterization raised in the last call
    pages_to_keep,  \* argument of the last rasterize_pages_with_watermark call
    images,         \* its result (the page number stands for the page's image)
    out_list,       \* the outputs of this 'Generate Previews' run
    raised,         \* an exception escaped (the call, or the script run)
    suffix,         \* the 'Output suffix' input of this run
    merge_all,      \* the 'Also merge all generated previews' checkbox of this run
    merge_order,    \* the 'Merged order' selectbox of this run: "name" or "size"
    pages_map,      \* dict out_name -> pages, in insertion order
    merged,         \* merged_images: each image is the page of a document
    wm              \* tile_watermark: the rotated tile, the coverage, the strides

vars == <<files, pc, fi, uploaded, errors, lastN, btn, rng, selBefore, checked,
          skip_empty, failing, pages_to_keep, images, out_list, raised,
          suffix, merge_all, merge_order, pages_map, merged, wm>>

----------------------------------------------------------------------------
(* Bounds of the model *)

\* longest text typed into a ranges input, over TextAlphabet
MaxTextLen == 3
\* largest page count of the documents the pure-function specifications draw
MaxPages == 3
\* page count of the document of the worked examples ('1-3,6,9-10' on 12 pages)
ExamplePages == 12
\* largest value typed into the 'First N' number input
MaxN == 4
\* most documents in one upload batch
MaxBatch == 2
\* longest pages_to_keep list handed to the rasterizer on its own
MaxKeepLen == 3
\* the rotated tile's width and height are TileUnit, 2 * TileUnit, ... MaxTile * TileUnit
TileUnit == 30
MaxTile == 4
\* the coverage values tried are the multiples of CoverageGrid hundredths
CoverageGrid == 5
\* most files in the session when 'Generate Previews' is followed on its own
MaxSession == 3

----------------------------------------------------------------------------
(* Python built-ins *)

\* range(a, b)
Range(a, b) == [i \in 1..(IF b > a THEN b - a ELSE 0) |-> a + i - 1]

\* set(list)
ToSet(s) == {s[i] : i \in DOMAIN s}

SetMin(S) == CHOOSE x \in S : \A y \in S : x <= y

RECURSIVE Sorted(_)
\* sorted(set)
Sorted(S) == IF S = {} THEN <<>>
             ELSE LET m == SetMin(S) IN <<m>> \o Sorted(S \ {m})

\* x in list
In(x, s) == \E i \in DOMAIN s : s[i] = x

\* list.remove(x): drops the first occurrence
ListRemove(s, x) ==
    LET i == CHOOSE j \in DOMAIN s : s[j] = x /\ \A k \in 1..(j - 1) : s[k] # x
    IN  SubSeq(s, 1, i - 1) \o SubSeq(s, i + 1, Len(s))

Min2(a, b) == IF a < b THEN a ELSE b
Max2(a, b) == IF a < b THEN b ELSE a

Digits == {"0", "1", "2", "3", "4", "5", "6", "7", "8", "9"}

DigitVal(c) == CASE c = "0" -> 0 [] c = "1" -> 1 [] c = "2" -> 2 [] c = "3" -> 3
                 [] c = "4" -> 4 [] c = "5" -> 5 [] c = "6" -> 6 [] c = "7" -> 7
                 [] c = "8" -> 8 [] c = "9" -> 9

\* index of the first occurrence of character c in text s, 0 when absent
Find(s, c) == IF \E i \in DOMAIN s : s[i] = c
              THEN CHOOSE i \in DOMAIN s : s[i] = c /\ \A k \in 1..(i - 1) : s[k] # c
              ELSE 0

RECURSIVE Split(_, _)
\* str.split(sep): every piece between separators, empty pieces included
Split(s, sep) ==
    LET i == Find(s, sep)
    IN  IF i = 0 THEN <<s>>
        ELSE <<SubSeq(s, 1, i - 1)>> \o Split(SubSeq(s, i + 1, Len(s)), sep)

\* str.split(sep, 1) of a text that contains sep
SplitOnce(s, sep) ==
    LET i == Find(s, sep)
    IN  <<SubSeq(s, 1, i - 1), SubSeq(s, i + 1, Len(s))>>

RECURSIVE LStrip(_)
LStrip(s) == IF s # <<>> /\ Head(s) = " " THEN LStrip(Tail(s)) ELSE s

RECURSIVE RStrip(_)
RStrip(s) == IF s # <<>> /\ s[Len(s)] = " " THEN RStrip(SubSeq(s, 1, Len(s) - 1)) ELSE s

\* str.strip()
Strip(s) == RStrip(LStrip(s))

RECURSIVE DigitsValue(_)
DigitsValue(s) == IF s = <<>> THEN 0
                  ELSE 10 * DigitsValue(SubSeq(s, 1, Len(s) - 1)) + DigitVal(s[Len(s)])

AllDigits(s) == s # <<>> /\ \A i \in DOMAIN s : s[i] \in Digits

\* int(text): surrounding blanks dropped, an optional minus sign, then digits only;
\* anything else is a ValueError (ok = FALSE)
PyInt(s) ==
    LET t == Strip(s)
    IN  IF AllDigits(t) THEN [ok |-> TRUE, val |-> DigitsValue(t)]
        ELSE IF t # <<>> /\ Head(t) = "-" /\ AllDigits(Tail(t))
             THEN [ok |-> TRUE, val |-> 0 - DigitsValue(Tail(t))]
             ELSE [ok |-> FALSE, val |-> 0]

----------------------------------------------------------------------------
(* Page selection: the directives *)

\* list(range(1, entry.page_count + 1)): the 'All' button and 'Select all pages'
SelectAll(page_count) == Range(1, page_count + 1)

FirstN_NoClamp(page_count, n) == Range(1, n + 1)

\* list(range(1, min(entry.page_count, n) + 1)): 'First N' and the '1st 3' button
FirstN(page_count, n) == Range(1, Min2(page_count, n) + 1)

\* the n of the '1st 3' button
FirstThree == 3

\* parts = [p.strip() for p in rng.split(",") if p.strip()]
Parts(text) ==
    LET raw == Split(text, ",")
        NonBlank(p) == Strip(p) # <<>>
        kept == SelectSeq(raw, NonBlank)
    IN  [i \in DOMAIN kept |-> Strip(kept[i])]

\* the body of the try of a part with a dash: a, b = part.split("-", 1); int(a), int(b);
\* every i of range(a, b + 1) with 1 <= i <= page_count is added
RangePart(part, sel, page_count) ==
    LET ab == SplitOnce(part, "-")
        a == PyInt(ab[1])
        b == PyInt(ab[2])
    IN  IF ~a.ok \/ ~b.ok THEN [raised |-> TRUE, sel |-> sel]
        ELSE [raised |-> FALSE,
              sel |-> sel \cup {i \in ToSet(Range(a.val, b.val + 1)) :
                                  1 <= i /\ i <= page_count}]

\* the body of the try of a part without a dash: i = int(part), added when in range
SinglePart(part, sel, page_count) ==
    LET i == PyInt(part)
    IN  IF ~i.ok THEN [raised |-> TRUE, sel |-> sel]
        ELSE [raised |-> FALSE,
              sel |-> IF 1 <= i.val /\ i.val <= page_count THEN sel \cup {i.val} ELSE sel]

ExceptPass_Reraise(r) == r

\* except Exception: pass
ExceptPass(r) == [r EXCEPT !.raised = FALSE]

\* one turn of 'for part in parts'
ApplyPart(part, sel, page_count) ==
    IF Find(part, "-") # 0
    THEN ExceptPass(RangePart(part, sel, page_count))
    ELSE ExceptPass(SinglePart(part, sel, page_count))

RECURSIVE ApplyParts(_, _, _)
\* the loop over parts; an exception that escapes a part ends it
ApplyParts(parts, sel, page_count) ==
    IF parts = <<>> THEN [raised |-> FALSE, sel |-> sel]
    ELSE LET r == ApplyPart(Head(parts), sel, page_count)
         IN  IF r.raised THEN r ELSE ApplyParts(Tail(parts), r.sel, page_count)

TypedRanges_Replace(text, selected_pages, page_count) ==
    IF text = <<>> THEN [raised |-> FALSE, selected_pages |-> selected_pages]
    ELSE LET r == ApplyParts(Parts(text), {}, page_count)
         IN  [raised |-> r.raised,
              selected_pages |-> IF r.raised THEN selected_pages ELSE Sorted(r.sel)]

TypedRanges_Toggle(text, selected_pages, page_count) ==
    IF text = <<>> THEN [raised |-> FALSE, selected_pages |-> selected_pages]
    ELSE LET r == ApplyParts(Parts(text), {}, page_count)
             old == ToSet(selected_pages)
         IN  [raised |-> r.raised,
              selected_pages |-> IF r.raised THEN selected_pages
                                 ELSE Sorted((old \ r.sel) \cup (r.sel \ old))]

\* the ranges input: if rng: ... sel = set(entry.selected_pages) ... sorted(sel)
TypedRanges(text, selected_pages, page_count) ==
    IF text = <<>> THEN [raised |-> FALSE, selected_pages |-> selected_pages]
    ELSE LET r == ApplyParts(Parts(text), ToSet(selected_pages), page_count)
         IN  [raised |-> r.raised,
              selected_pages |-> IF r.raised THEN selected_pages ELSE Sorted(r.sel)]

RECURSIVE CheckboxLoop(_, _, _, _)
\* for i in range(page_count): the checkbox of page i + 1 returned new_val;
\* the page is appended when ticked and absent, removed when unticked and present
CheckboxLoop(sel, i, page_count, ticked) ==
    IF i >= page_count THEN sel
    ELSE LET new_val == (i + 1) \in ticked
             next == IF new_val /\ ~In(i + 1, sel) THEN Append(sel, i + 1)
                     ELSE IF ~new_val /\ In(i + 1, sel) THEN ListRemove(sel, i + 1)
                     ELSE sel
         IN  CheckboxLoop(next, i + 1, page_count, ticked)

Checkboxes_NoSort(selected_pages, page_count, ticked) ==
    CheckboxLoop(selected_pages, 0, page_count, ticked)

Checkboxes_AddOnly(selected_pages, page_count, ticked) ==
    Sorted(ToSet(selected_pages) \cup ticked)

\* the checkbox loop and the entry.selected_pages = sorted(set(...)) that ends the pass
Checkboxes(selected_pages, page_count, ticked) ==
    Sorted(ToSet(CheckboxLoop(selected_pages, 0, page_count, ticked)))

----------------------------------------------------------------------------
(* Documents, ingest and the rasterizer *)

\* The files a user may upload.  name and size are the upload's; id stands for its
\* bytes; convertible: convert_docx_to_pdf_bytes returns (asked of a .docx only);
\* readable: fitz.open and render_thumbnails succeed on the PDF bytes.
Docs ==
    { [id |-> 1, name |-> [stem |-> <<"a">>, ext |-> ".pdf"], size |-> 1,
       convertible |-> TRUE, readable |-> TRUE, page_count |-> 2],
      [id |-> 2, name |-> [stem |-> <<"a">>, ext |-> ".docx"], size |-> 2,
       convertible |-> TRUE, readable |-> TRUE, page_count |-> 3],
      [id |-> 3, name |-> [stem |-> <<"b">>, ext |-> ".docx"], size |-> 1,
       convertible |-> FALSE, readable |-> FALSE, page_count |-> 0],
      [id |-> 4, name |-> [stem |-> <<"c">>, ext |-> ".pdf"], size |-> 3,
       convertible |-> TRUE, readable |-> FALSE, page_count |-> 0] }

\* make_key: f"{name}::{len(data)}"
make_key(name, size) == <<name, size>>

\* FileEntry (thumbs, one per page, are shown and never read back)
FileEntry(key, name, size, bytes_pdf, page_count, selected_pages) ==
    [key |-> key, name |-> name, size |-> size, bytes_pdf |-> bytes_pdf,
     page_count |-> page_count, selected_pages |-> selected_pages]

\* key in st.session_state.files
HasKey(fs, key) == \E i \in DOMAIN fs : fs[i].key = key

IngestOne_StoreUnreadable(st, uf) ==
    LET key == make_key(uf.name, uf.size)
    IN  IF HasKey(st.files, key) THEN st
        ELSE IF uf.name.ext = ".docx" /\ ~uf.convertible
        THEN [st EXCEPT !.errors = Append(@, [kind |-> "convert", name |-> uf.name])]
        ELSE [errors |-> IF uf.readable THEN st.errors
                         ELSE Append(st.errors, [kind |-> "read", name |-> uf.name]),
              files |-> Append(st.files, FileEntry(key, uf.name, uf.size, uf.id,
                                                   uf.page_count, <<>>))]

\* one turn of 'for uf in uploaded': a known key is passed over; a .docx that does
\* not convert, or bytes that do not read as a PDF, give st.error and continue;
\* otherwise a FileEntry with no page selected is stored under the key
IngestOne(st, uf) ==
    LET key == make_key(uf.name, uf.size)
    IN  IF HasKey(st.files, key) THEN st
        ELSE IF uf.name.ext = ".docx" /\ ~uf.convertible
        THEN [st EXCEPT !.errors = Append(@, [kind |-> "convert", name |-> uf.name])]
        ELSE IF ~uf.readable
        THEN [st EXCEPT !.errors = Append(@, [kind |-> "read", name |-> uf.name])]
        ELSE [st EXCEPT !.files = Append(@, FileEntry(key, uf.name, uf.size, uf.id,
                                                      uf.page_count, <<>>))]

RECURSIVE IngestAll(_, _)
\* if uploaded: for uf in uploaded: ...
IngestAll(st, batch) ==
    IF batch = <<>> THEN st
    ELSE IngestAll(IngestOne(st, Head(batch)), Tail(batch))

RECURSIVE RasterLoop(_, _, _, _)
\* for pnum in ...: an index outside 1..len(doc) is passed over; a page whose
\* get_pixmap or tile_watermark raises ends the call with that exception (the
\* try has a finally and no except); otherwise the page's image is appended
RasterLoop(todo, page_count, bad, acc) ==
    IF todo = <<>> THEN [raised |-> FALSE, images |-> acc]
    ELSE LET pnum == Head(todo)
         IN  IF pnum < 1 \/ pnum > page_count
             THEN RasterLoop(Tail(todo), page_count, bad, acc)
             ELSE IF pnum \in bad THEN [raised |-> TRUE, images |-> <<>>]
             ELSE RasterLoop(Tail(todo), page_count, bad, Append(acc, pnum))

rasterize_AsGiven(page_count, keep, bad) ==
    IF keep = <<>> THEN [raised |-> FALSE, images |-> <<>>]
    ELSE RasterLoop(keep, page_count, bad, <<>>)

\* rasterize_pages_with_watermark(pdf_bytes, pages_to_keep, ...) on a document of
\* page_count pages of which the pages of bad raise: nothing for an empty list,
\* else the loop over sorted(set(pages_to_keep))
rasterize_pages_with_watermark(page_count, keep, bad) ==
    IF keep = <<>> THEN [raised |-> FALSE, images |-> <<>>]
    ELSE RasterLoop(Sorted(ToSet(keep)), page_count, bad, <<>>)

\* the 'Output suffix' input as it comes up
DefaultSuffix == <<"_", "p", "r", "e", "v", "i", "e", "w">>

\* base = Path(entry.name).stem; out_name = f"{base}{suffix}.pdf"
OutName(name, sfx) == name.stem \o sfx \o <<".", "p", "d", "f">>

----------------------------------------------------------------------------
(* tile_watermark: the spacing of the tiles *)

\* coverage is held in hundredths (the slider moves in steps of 0.01)
Hundredths == 100

\* the 0.85 of 'coverage * 0.85', in hundredths
CoverageFactor == 85

\* the 40 of max(40, ...): no step and no stride is below it
MinStride == 40

\* step = int(max(40, min(tile.size) * (1.0 - coverage * 0.85))), coverage = k / 100;
\* the product is positive, so int() is the floor
TileStep(w, h, k) ==
    Max2(MinStride,
         (Min2(w, h) * (Hundredths * Hundredths - CoverageFactor * k))
             \div (Hundredths * Hundredths))

Stride_OfStep(size, step) == Max2(MinStride, step)

\* step_x = max(40, tile.size[0] - step); step_y alike with tile.size[1]
Stride(size, step) == Max2(MinStride, size - step)

\* the strides of one tile_watermark call on a rotated tile of w by h, kept with
\* the coverage and strides of the call before it on the same tile
Tiled(w, h, k, before) ==
    [w |-> w, h |-> h, coverage |-> k,
     step_x |-> Stride(w, TileStep(w, h, k)),
     step_y |-> Stride(h, TileStep(w, h, k)),
     prev_coverage |-> before.coverage,
     prev_step_x |-> before.step_x,
     prev_step_y |-> before.step_y]

----------------------------------------------------------------------------
(* Inputs *)

\* the characters typed into a ranges input
TextAlphabet == {"1", "3", "-", ",", " "}

Texts == UNION {[1..n -> TextAlphabet] : n \in 0..MaxTextLen}

\* the upload batches: up to MaxBatch documents, in any order, repeats allowed
Batches == UNION {[1..n -> Docs] : n \in 0..MaxBatch}

Buttons == {"", "all", "first3", "none"}

\* the page numbers of the documents of Docs
DocPages == UNION {1..d.page_count : d \in Docs}

----------------------------------------------------------------------------
(* The script run *)

SelHistReset == /\ lastN' = 0
                /\ btn' = ""
                /\ rng' = <<>>
                /\ selBefore' = <<>>
                /\ checked' = {}

RasHistReset == /\ failing' = {}
                /\ pages_to_keep' = <<>>
                /\ images' = <<>>

\* the export widgets as they come up, nothing generated
ExportInit == /\ suffix = DefaultSuffix
              /\ merge_all = TRUE
              /\ merge_order = "name"
              /\ pages_map = <<>>
              /\ merged = <<>>

ExportReset == /\ suffix' = DefaultSuffix
               /\ merge_all' = TRUE
               /\ merge_order' = "name"
               /\ pages_map' = <<>>
               /\ merged' = <<>>

\* no tile has been built
NoTile == [w |-> 0, h |-> 0, coverage |-> 0, step_x |-> 0, step_y |-> 0,
           prev_coverage |-> 0, prev_step_x |-> 0, prev_step_y |-> 0]

Init == /\ files = <<>>
        /\ pc = "start"
        /\ fi = 0
        /\ uploaded = <<>>
        /\ errors = <<>>
        /\ lastN = 0
        /\ btn = ""
        /\ rng = <<>>
        /\ selBefore = <<>>
        /\ checked = {}
        /\ skip_empty = TRUE
        /\ failing = {}
        /\ pages_to_keep = <<>>
        /\ images = <<>>
        /\ out_list = <<>>
        /\ raised = FALSE
        /\ ExportInit
        /\ wm = NoTile

\* sidebar button 'Clear all uploaded files / Start fresh': files = {}, st.rerun()
ClearAllUploaded ==
    /\ pc = "start"
    /\ files' = <<>>
    /\ pc' = "start"
    /\ fi' = 0
    /\ uploaded' = <<>>
    /\ errors' = <<>>
    /\ skip_empty' = TRUE
    /\ out_list' = <<>>
    /\ raised' = FALSE
    /\ SelHistReset
    /\ RasHistReset
    /\ ExportReset
    /\ UNCHANGED wm

\* a run begins: the uploader's batch is ingested
Ingest(batch) ==
    /\ pc = "start"
    /\ LET st == IngestAll([files |-> files, errors |-> <<>>], batch)
       IN  /\ files' = st.files
           /\ errors' = st.errors
    /\ uploaded' = batch
    /\ pc' = "ingested"
    /\ fi' = 0
    /\ skip_empty' = TRUE
    /\ out_list' = <<>>
    /\ raised' = FALSE
    /\ SelHistReset
    /\ RasHistReset
    /\ ExportReset
    /\ UNCHANGED wm

\* if not st.session_state.files: st.info(...); st.stop()
StopIfEmpty ==
    /\ pc = "ingested"
    /\ files = <<>>
    /\ pc' = "start"
    /\ uploaded' = <<>>
    /\ errors' = <<>>
    /\ UNCHANGED <<files, fi, lastN, btn, rng, selBefore, checked, skip_empty,
                   failing, pages_to_keep, images, out_list, raised>>
    /\ UNCHANGED <<suffix, merge_all, merge_order, pages_map, merged, wm>>

\* if apply_first_n: every entry gets list(range(1, min(page_count, int(N)) + 1))
GlobalFirstN(apply_first_n, N) ==
    /\ pc = "ingested"
    /\ files # <<>>
    /\ files' = IF apply_first_n
                THEN [i \in DOMAIN files |->
                        [files[i] EXCEPT !.selected_pages = FirstN(files[i].page_count, N)]]
                ELSE files
    /\ lastN' = IF apply_first_n THEN N ELSE 0
    /\ pc' = "g_clear"
    /\ uploaded' = <<>>
    /\ errors' = <<>>
    /\ UNCHANGED <<fi, btn, rng, selBefore, checked, skip_empty,
                   failing, pages_to_keep, images, out_list, raised>>
    /\ UNCHANGED <<suffix, merge_all, merge_order, pages_map, merged, wm>>

\* if clear_all: every entry gets []
GlobalClear(clear_all) ==
    /\ pc = "g_clear"
    /\ files' = IF clear_all
                THEN [i \in DOMAIN files |-> [files[i] EXCEPT !.selected_pages = <<>>]]
                ELSE files
    /\ lastN' = 0
    /\ pc' = "g_all"
    /\ UNCHANGED <<fi, uploaded, errors, btn, rng, selBefore, checked, skip_empty,
                   failing, pages_to_keep, images, out_list, raised>>
    /\ UNCHANGED <<suffix, merge_all, merge_order, pages_map, merged, wm>>

\* if select_all_pages: every entry gets list(range(1, page_count + 1));
\* then the per-file loop starts at the first entry
GlobalSelectAll(select_all_pages) ==
    /\ pc = "g_all"
    /\ files' = IF select_all_pages
                THEN [i \in DOMAIN files |->
                        [files[i] EXCEPT !.selected_pages = SelectAll(files[i].page_count)]]
                ELSE files
    /\ pc' = "btn"
    /\ fi' = 1
    /\ UNCHANGED <<uploaded, errors, lastN, btn, rng, selBefore, checked, skip_empty,
                   failing, pages_to_keep, images, out_list, raised>>
    /\ UNCHANGED <<suffix, merge_all, merge_order, pages_map, merged, wm>>

\* what the buttons All / 1st 3 / None of one file do to its selection
ButtonEffect(b, entry) ==
    IF b = "all" THEN SelectAll(entry.page_count)
    ELSE IF b = "first3" THEN FirstN(entry.page_count, FirstThree)
    ELSE IF b = "none" THEN <<>>
    ELSE entry.selected_pages

\* columns c1..c3 of the current file: a button returns True only in the run its
\* click started, so at most one of them acts
FileButtons(b) ==
    /\ pc = "btn"
    /\ selBefore' = files[fi].selected_pages
    /\ files' = [files EXCEPT ![fi].selected_pages = ButtonEffect(b, files[fi])]
    /\ btn' = b
    /\ pc' = "rng"
    /\ rng' = <<>>
    /\ checked' = {}
    /\ UNCHANGED <<fi, uploaded, errors, lastN, skip_empty,
                   failing, pages_to_keep, images, out_list, raised>>
    /\ UNCHANGED <<suffix, merge_all, merge_order, pages_map, merged, wm>>

\* column c4 of the current file: the ranges input holds text
FileRanges(text) ==
    /\ pc = "rng"
    /\ LET r == TypedRanges(text, files[fi].selected_pages, files[fi].page_count)
       IN  /\ files' = [files EXCEPT ![fi].selected_pages = r.selected_pages]
           /\ raised' = r.raised
           /\ pc' = IF r.raised THEN "start" ELSE "cb"
    /\ selBefore' = files[fi].selected_pages
    /\ rng' = text
    /\ btn' = ""
    /\ UNCHANGED <<fi, uploaded, errors, lastN, checked, skip_empty,
                   failing, pages_to_keep, images, out_list>>
    /\ UNCHANGED <<suffix, merge_all, merge_order, pages_map, merged, wm>>

\* del st.session_state.files[key]
DelFile(fs, i) == SubSeq(fs, 1, i - 1) \o SubSeq(fs, i + 1, Len(fs))

\* column c5 of the current file: 'Remove file' deletes the entry, st.rerun()
RemoveFile ==
    /\ pc = "cb"
    /\ files' = DelFile(files, fi)
    /\ pc' = "start"
    /\ fi' = 0
    /\ SelHistReset
    /\ UNCHANGED <<uploaded, errors, skip_empty,
                   failing, pages_to_keep, images, out_list, raised>>
    /\ UNCHANGED <<suffix, merge_all, merge_order, pages_map, merged, wm>>

\* the checkboxes of the current file, each returning what the widget holds, and
\* the sort that ends the file's pass; then the next file, or the export section
FileCheckboxes(ticked) ==
    /\ pc = "cb"
    /\ ticked \subseteq 1..files[fi].page_count
    /\ files' = [files EXCEPT ![fi].selected_pages =
                     Checkboxes(files[fi].selected_pages, files[fi].page_count, ticked)]
    /\ checked' = ticked
    /\ selBefore' = files[fi].selected_pages
    /\ rng' = <<>>
    /\ IF fi < Len(files) THEN pc' = "btn" /\ fi' = fi + 1
                          ELSE pc' = "export" /\ fi' = fi
    /\ UNCHANGED <<uploaded, errors, lastN, btn, skip_empty,
                   failing, pages_to_keep, images, out_list, raised>>
    /\ UNCHANGED <<suffix, merge_all, merge_order, pages_map, merged, wm>>

\* the run ends with 'Generate Previews' not clicked
EndRun ==
    /\ pc = "export"
    /\ pc' = "start"
    /\ fi' = 0
    /\ SelHistReset
    /\ UNCHANGED <<files, uploaded, errors, skip_empty,
                   failing, pages_to_keep, images, out_list, raised>>
    /\ UNCHANGED <<suffix, merge_all, merge_order, pages_map, merged, wm>>

\* 'Generate Previews' clicked: out_list = [], the loop over the files starts
GenerateStart(skip, sfx, merge, order) ==
    /\ pc = "export"
    /\ pc' = "gen"
    /\ fi' = 1
    /\ skip_empty' = skip
    /\ suffix' = sfx
    /\ merge_all' = merge
    /\ merge_order' = order
    /\ out_list' = <<>>
    /\ pages_map' = <<>>
    /\ merged' = <<>>
    /\ SelHistReset
    /\ UNCHANGED <<files, uploaded, errors, failing, pages_to_keep, images, raised, wm>>

NewOutList_KeepEmpty(out, entry, r, sfx) ==
    IF r.raised THEN out
    ELSE Append(out, [out_name |-> OutName(entry.name, sfx),
                      pdf_bytes |-> r.images, key |-> entry.key])

\* if not pages: continue; else out_list.append((out_name, images_to_pdf_bytes(pages)))
\* (the encoder keeps the images and their order: the pages stand for its bytes)
NewOutList(out, entry, r, sfx) ==
    IF r.raised \/ r.images = <<>> THEN out
    ELSE Append(out, [out_name |-> OutName(entry.name, sfx),
                      pdf_bytes |-> r.images, key |-> entry.key])

\* the images of a call, each the page of the entry's document
PagesOf(entry, imgs) == [i \in DOMAIN imgs |-> [doc |-> entry.bytes_pdf, page |-> imgs[i]]]

\* d[k] = v on a dict held in insertion order: a key already there keeps its place
\* and takes the new value, a new key goes to the end
DictSet(d, k, v) ==
    IF \E i \in DOMAIN d : d[i].out_name = k
    THEN [i \in DOMAIN d |-> IF d[i].out_name = k THEN [out_name |-> k, pages |-> v] ELSE d[i]]
    ELSE Append(d, [out_name |-> k, pages |-> v])

\* pages_map[out_name] = pages, reached only past 'if not pages: continue'
NewPagesMap(pm, entry, r, sfx) ==
    IF r.raised \/ r.images = <<>> THEN pm
    ELSE DictSet(pm, OutName(entry.name, sfx), PagesOf(entry, r.images))

\* one turn of 'for key, entry in st.session_state.files.items()': nothing selected
\* and skip_empty: next file; else the rasterizer is called; its exception ends
\* the run; no pages: next file; else the output is appended to out_list
GenerateFile(bad) ==
    /\ pc = "gen"
    /\ fi <= Len(files)
    /\ bad \subseteq 1..files[fi].page_count
    /\ LET entry == files[fi]
       IN  IF entry.selected_pages = <<>> /\ skip_empty
           THEN /\ bad = {}
                /\ RasHistReset
                /\ UNCHANGED <<out_list, pages_map, raised>>
                /\ pc' = "gen"
                /\ fi' = fi + 1
           ELSE LET r == rasterize_pages_with_watermark(entry.page_count,
                                                        entry.selected_pages, bad)
                IN  /\ pages_to_keep' = entry.selected_pages
                    /\ failing' = bad
                    /\ images' = r.images
                    /\ raised' = r.raised
                    /\ pc' = IF r.raised THEN "start" ELSE "gen"
                    /\ fi' = IF r.raised THEN fi ELSE fi + 1
                    /\ out_list' = NewOutList(out_list, entry, r, suffix)
                    /\ pages_map' = NewPagesMap(pages_map, entry, r, suffix)
    /\ UNCHANGED <<files, uploaded, errors, lastN, btn, rng, selBefore, checked,
                   skip_empty, suffix, merge_all, merge_order, merged, wm>>

MergeOrders == {"name", "size"}

\* the characters of names and suffixes, in code point order
CharOrder == <<".", "0", "1", "2", "3", "A", "B", "_", "a", "b", "c", "d", "e", "f",
               "i", "p", "r", "v", "w">>

\* ord(c), up to an order-preserving renumbering
CharCode(c) == CHOOSE i \in DOMAIN CharOrder : CharOrder[i] = c

\* str < str: the first differing character decides, a proper prefix is smaller
StrLess(a, b) ==
    \E i \in 1..(Len(b)) :
        /\ \A k \in 1..(i - 1) : k <= Len(a) /\ a[k] = b[k]
        /\ \/ i = Len(a) + 1
           \/ i <= Len(a) /\ CharCode(a[i]) < CharCode(b[i])

\* str.lower()
ToLower(t) == [i \in DOMAIN t |-> CASE t[i] = "A" -> "a" [] t[i] = "B" -> "b" [] OTHER -> t[i]]

\* Path(fname).stem: the name without its last suffix (a dot that leads or ends
\* the name starts no suffix)
PathStem(t) ==
    LET dots == {i \in DOMAIN t : t[i] = "."}
        last == CHOOSE i \in dots : \A j \in dots : j <= i
    IN  IF dots = {} THEN t
        ELSE IF last = 1 \/ last = Len(t) THEN t
        ELSE SubSeq(t, 1, last - 1)

StartsWith(t, old) == Len(old) <= Len(t) /\ SubSeq(t, 1, Len(old)) = old

RECURSIVE Replace(_, _)
\* str.replace(old, ""): every occurrence of old, left to right, is dropped
Replace(t, old) ==
    IF old = <<>> \/ t = <<>> THEN t
    ELSE IF StartsWith(t, old) THEN Replace(SubSeq(t, Len(old) + 1, Len(t)), old)
    ELSE <<Head(t)>> \o Replace(Tail(t), old)

\* name_to_size.get(base, float('inf')) after name_to_size[stem] = entry.size over
\* the files in order: the last entry of that stem decides
NameToSize(fs, base) ==
    LET hits == {i \in DOMAIN fs : fs[i].name.stem = base}
    IN  IF hits = {} THEN [inf |-> TRUE, val |-> 0]
        ELSE [inf |-> FALSE, val |-> fs[CHOOSE i \in hits : \A j \in hits : j <= i].size]

\* size_key(item): the size filed under Path(fname).stem.replace(suffix, "")
size_key(item, fs, sfx) == NameToSize(fs, Replace(PathStem(item.out_name), sfx))

\* lambda x: x[0].lower()
name_key(item) == ToLower(item.out_name)

\* key < key, for the keys of one merge order
KeyLess(order, a, b) ==
    IF order = "name" THEN StrLess(a, b)
    ELSE ~a.inf /\ (b.inf \/ a.val < b.val)

RECURSIVE InsertSorted(_, _, _)
\* x put behind every element whose key is not above its own
InsertSorted(done, x, order) ==
    IF done = <<>> THEN <<x>>
    ELSE IF KeyLess(order, x.k, Head(done).k) THEN <<x>> \o done
    ELSE <<Head(done)>> \o InsertSorted(Tail(done), x, order)

RECURSIVE StableSort(_, _, _)
\* list.sort(key=...): ascending by key, equal keys in the order they had
StableSort(keyed, done, order) ==
    IF keyed = <<>> THEN done
    ELSE StableSort(Tail(keyed), InsertSorted(done, Head(keyed), order), order)

RECURSIVE Flatten(_)
\* for fname, pages in items: merged_images.extend(pages)
Flatten(keyed) ==
    IF keyed = <<>> THEN <<>> ELSE Head(keyed).item.pages \o Flatten(Tail(keyed))

\* items = list(pages_map.items()), each with its sort key
KeyedItems(pm, fs, sfx, order) ==
    [i \in DOMAIN pm |->
        [k |-> IF order = "name" THEN name_key(pm[i]) ELSE size_key(pm[i], fs, sfx),
         item |-> pm[i]]]

\* if merge_all and pages_map: the items sorted by the order's key, their pages
\* concatenated; otherwise nothing is merged
MergedImages(pm, fs, sfx, merge, order) ==
    IF ~merge \/ pm = <<>> THEN <<>>
    ELSE Flatten(StableSort(KeyedItems(pm, fs, sfx, order), <<>>, order))

\* the loop is over: the downloads are offered, the merged document is built when
\* asked for, and the run ends
GenerateEnd ==
    /\ pc = "gen"
    /\ fi > Len(files)
    /\ pc' = "start"
    /\ fi' = 0
    /\ RasHistReset
    /\ merged' = MergedImages(pages_map, files, suffix, merge_all, merge_order)
    /\ UNCHANGED <<files, uploaded, errors, lastN, btn, rng, selBefore, checked,
                   skip_empty, out_list, raised, suffix, merge_all, merge_order,
                   pages_map, wm>>

Next ==
    \/ ClearAllUploaded
    \/ \E batch \in Batches : Ingest(batch)
    \/ StopIfEmpty
    \/ \E apply_first_n \in BOOLEAN, N \in 1..MaxN : GlobalFirstN(apply_first_n, N)
    \/ \E clear_all \in BOOLEAN : GlobalClear(clear_all)
    \/ \E select_all_pages \in BOOLEAN : GlobalSelectAll(select_all_pages)
    \/ \E b \in Buttons : FileButtons(b)
    \/ \E text \in Texts : FileRanges(text)
    \/ RemoveFile
    \/ \E ticked \in SUBSET DocPages : FileCheckboxes(ticked)
    \/ EndRun
    \/ \E skip \in BOOLEAN, merge \in BOOLEAN, order \in MergeOrders :
           GenerateStart(skip, DefaultSuffix, merge, order)
    \/ \E bad \in SUBSET DocPages : GenerateFile(bad)
    \/ GenerateEnd

Spec == Init /\ [][Next]_vars

----------------------------------------------------------------------------
(* The selection directives on their own: a directive is applied to a selection, *)
(* and then the same directive once more                                       *)

\* the texts of the worked examples and of a reversed range
Example1 == <<"1", "-", "3", ",", "6", ",", "9", "-", "1", "0">>
Example2 == <<"1", "-", "3", ",", "a", "b", "c", ",", "6">>
Example3 == <<"5", "-", "2">>

SelTexts == (Texts \ {<<>>}) \cup {Example1, Example2, Example3}

SelPageCounts == (1..MaxPages) \cup {ExamplePages}

\* every selection of a small document; none or all pages of the large one
StartSelections(p) == IF p <= MaxPages THEN SUBSET (1..p) ELSE {{}, 1..p}

SelEntry(p, S) ==
    LET name == [stem |-> <<"a">>, ext |-> ".pdf"]
    IN  FileEntry(make_key(name, 1), name, 1, 0, p, Sorted(S))

InitSel == /\ \E p \in SelPageCounts : \E S \in StartSelections(p) :
                files = <<SelEntry(p, S)>>
           /\ pc = "sel0"
           /\ fi = 1
           /\ uploaded = <<>>
           /\ errors = <<>>
           /\ lastN = 0
           /\ btn = ""
           /\ rng = <<>>
           /\ selBefore = <<>>
           /\ checked = {}
           /\ skip_empty = TRUE
           /\ failing = {}
           /\ pages_to_keep = <<>>
           /\ images = <<>>
           /\ out_list = <<>>
           /\ raised = FALSE
           /\ ExportInit
           /\ wm = NoTile

SelPhase == /\ pc \in {"sel0", "sel1"}
            /\ pc' = IF pc = "sel0" THEN "sel1" ELSE "sel2"
            /\ selBefore' = files[1].selected_pages
            /\ UNCHANGED <<fi, uploaded, errors, checked, skip_empty, failing,
                           pages_to_keep, images, out_list>>
            /\ UNCHANGED <<suffix, merge_all, merge_order, pages_map, merged, wm>>

\* All / 1st 3 / None
SelButton(b) ==
    /\ SelPhase
    /\ pc = "sel1" => btn = b
    /\ files' = [files EXCEPT ![1].selected_pages = ButtonEffect(b, files[1])]
    /\ btn' = b
    /\ UNCHANGED <<lastN, rng, raised>>

\* 'First N' with N = n
SelFirstN(n) ==
    /\ SelPhase
    /\ pc = "sel1" => lastN = n
    /\ files' = [files EXCEPT ![1].selected_pages = FirstN(files[1].page_count, n)]
    /\ lastN' = n
    /\ UNCHANGED <<btn, rng, raised>>

\* a typed ranges text
SelRanges(text) ==
    /\ SelPhase
    /\ pc = "sel1" => rng = text
    /\ LET r == TypedRanges(text, files[1].selected_pages, files[1].page_count)
       IN  /\ files' = [files EXCEPT ![1].selected_pages = r.selected_pages]
           /\ raised' = r.raised
    /\ rng' = text
    /\ UNCHANGED <<btn, lastN>>

NextSel ==
    \/ \E b \in Buttons \ {""} : SelButton(b)
    \/ \E n \in 1..MaxN : SelFirstN(n)
    \/ \E text \in SelTexts : SelRanges(text)

SpecSel == InitSel /\ [][NextSel]_vars

----------------------------------------------------------------------------
(* The rasterizer on its own: any list of page numbers, in any order *)

KeepLists == UNION {[1..n -> 0..(MaxPages + 1)] : n \in 0..MaxKeepLen}

InitRaster == /\ \E p \in 1..MaxPages : files = <<SelEntry(p, {})>>
              /\ pages_to_keep \in KeepLists
              /\ pc = "ras0"
              /\ fi = 1
              /\ uploaded = <<>>
              /\ errors = <<>>
              /\ lastN = 0
              /\ btn = ""
              /\ rng = <<>>
              /\ selBefore = <<>>
              /\ checked = {}
              /\ skip_empty = TRUE
              /\ failing = {}
              /\ images = <<>>
              /\ out_list = <<>>
              /\ raised = FALSE
              /\ ExportInit
              /\ wm = NoTile

\* rasterize_pages_with_watermark(entry.bytes_pdf, pages_to_keep, ...) while the
\* pages of bad raise
RasterCall(bad) ==
    /\ pc = "ras0"
    /\ bad \subseteq 1..files[1].page_count
    /\ LET r == rasterize_pages_with_watermark(files[1].page_count, pages_to_keep, bad)
       IN  /\ images' = r.images
           /\ raised' = r.raised
    /\ failing' = bad
    /\ pc' = "ras1"
    /\ UNCHANGED <<files, fi, uploaded, errors, lastN, btn, rng, selBefore, checked,
                   skip_empty, pages_to_keep, out_list>>
    /\ UNCHANGED <<suffix, merge_all, merge_order, pages_map, merged, wm>>

NextRaster == \E bad \in SUBSET (1..MaxPages) : RasterCall(bad)

SpecRaster == InitRaster /\ [][NextRaster]_vars

----------------------------------------------------------------------------
(* tile_watermark on its own: one rotated tile, stamped with one coverage after *)
(* another                                                                      *)

TileSizes == {TileUnit * i : i \in 1..MaxTile}

\* coverage values of (0, 1], in hundredths
Coverages == {k \in 1..Hundredths : k % CoverageGrid = 0}

InitTile == /\ files = <<>>
            /\ pc = "tile"
            /\ fi = 0
            /\ uploaded = <<>>
            /\ errors = <<>>
            /\ skip_empty = TRUE
            /\ out_list = <<>>
            /\ raised = FALSE
            /\ lastN = 0
            /\ btn = ""
            /\ rng = <<>>
            /\ selBefore = <<>>
            /\ checked = {}
            /\ failing = {}
            /\ pages_to_keep = <<>>
            /\ images = <<>>
            /\ ExportInit
            /\ wm = NoTile

TileFrame == UNCHANGED <<files, pc, fi, uploaded, errors, lastN, btn, rng, selBefore,
                         checked, skip_empty, failing, pages_to_keep, images,
                         out_list, raised, suffix, merge_all, merge_order,
                         pages_map, merged>>

\* tile_watermark is called: the text and font give a rotated tile of w by h
FirstTile(w, h, k) ==
    /\ pc = "tile"
    /\ wm = NoTile
    /\ wm' = Tiled(w, h, k, NoTile)
    /\ TileFrame

\* it is called again with the same text, font and angle, and another coverage
NextTile(k) ==
    /\ pc = "tile"
    /\ wm # NoTile
    /\ wm' = Tiled(wm.w, wm.h, k, wm)
    /\ TileFrame

NextWm ==
    \/ \E w \in TileSizes, h \in TileSizes, k \in Coverages : FirstTile(w, h, k)
    \/ \E k \in Coverages : NextTile(k)

SpecTile == InitTile /\ [][NextWm]_vars

----------------------------------------------------------------------------
(* 'Generate Previews' on its own: a session of ingested files, each with no  *)
(* page or every page selected, and the export widgets set in any way         *)

\* the files of Docs that ingest, a file with a capital in its name and a file
\* whose name holds a suffix the user may type
MergeDocs ==
    {d \in Docs : d.convertible /\ d.readable} \cup
    { [id |-> 5, name |-> [stem |-> <<"B">>, ext |-> ".pdf"], size |-> 2,
       convertible |-> TRUE, readable |-> TRUE, page_count |-> 1],
      [id |-> 6, name |-> [stem |-> <<"a", "_", "p">>, ext |-> ".pdf"], size |-> 1,
       convertible |-> TRUE, readable |-> TRUE, page_count |-> 1] }

\* what is typed into 'Output suffix': the default, nothing, a short one
Suffixes == {DefaultSuffix, <<>>, <<"_", "p">>}

\* the files of a session, in upload order: no key twice
MergeSessions ==
    {fs \in UNION {[1..n -> MergeDocs] : n \in 1..MaxSession} :
        \A i \in DOMAIN fs, j \in DOMAIN fs : i # j => fs[i] # fs[j]}

\* the entry ingest stores for an upload, with every page selected or none
MergeEntry(uf, all) ==
    FileEntry(make_key(uf.name, uf.size), uf.name, uf.size, uf.id, uf.page_count,
              IF all THEN SelectAll(uf.page_count) ELSE <<>>)

InitMerge == /\ \E fs \in MergeSessions : \E all \in [DOMAIN fs -> BOOLEAN] :
                  files = [i \in DOMAIN fs |-> MergeEntry(fs[i], all[i])]
             /\ pc = "export"
             /\ fi = 0
             /\ uploaded = <<>>
             /\ errors = <<>>
             /\ skip_empty = TRUE
             /\ out_list = <<>>
             /\ raised = FALSE
             /\ lastN = 0
             /\ btn = ""
             /\ rng = <<>>
             /\ selBefore = <<>>
             /\ checked = {}
             /\ failing = {}
             /\ pages_to_keep = <<>>
             /\ images = <<>>
             /\ ExportInit
             /\ wm = NoTile

\* the pages that may fail to rasterize: none, or the first
MergeBad == {{}, {1}}

NextMerge ==
    \/ \E skip \in BOOLEAN, sfx \in Suffixes, merge \in BOOLEAN, order \in MergeOrders :
           GenerateStart(skip, sfx, merge, order)
    \/ \E bad \in MergeBad : GenerateFile(bad)
    \/ GenerateEnd

SpecMerge == InitMerge /\ [][NextMerge]_vars

----------------------------------------------------------------------------
(* Properties *)

StrictlyAscending(s) == \A i \in 1..(Len(s) - 1) : s[i] < s[i + 1]

\* the integer a token stands for, when it is one
IsInt(t, n) == PyInt(t).ok /\ PyInt(t).val = n

\* a token 'a-b', cut at its first dash, with integers a and b
RangeEnds(t) ==
    LET d == Find(t, "-")
        a == PyInt(SubSeq(t, 1, d - 1))
        b == PyInt(SubSeq(t, d + 1, Len(t)))
    IN  [ok |-> d # 0 /\ a.ok /\ b.ok, a |-> a.val, b |-> b.val]

Lower(a, b) == IF a < b THEN a ELSE b
Upper(a, b) == IF a < b THEN b ELSE a

\* the comma-separated tokens of a text, trimmed
Tokens(text) == {Strip(Split(text, ",")[k]) : k \in DOMAIN Split(text, ",")}

\* the pages of 1..page_count that a text names: by an integer token, or by a range
\* token 'a-b' with a <= b read as a..b
NamedAscending(text, page_count) ==
    {p \in 1..page_count : \E t \in Tokens(text) :
        \/ Find(t, "-") = 0 /\ IsInt(t, p)
        \/ RangeEnds(t).ok /\ RangeEnds(t).a <= p /\ p <= RangeEnds(t).b}

\* the same with a range token 'a-b' read as min(a, b)..max(a, b)
NamedSpan(text, page_count) ==
    {p \in 1..page_count : \E t \in Tokens(text) :
        \/ Find(t, "-") = 0 /\ IsInt(t, p)
        \/ /\ RangeEnds(t).ok
           /\ Lower(RangeEnds(t).a, RangeEnds(t).b) <= p
           /\ p <= Upper(RangeEnds(t).a, RangeEnds(t).b)}

\* C1: at the end of every script run, and whenever 'Generate Previews' reads it,
\* each entry's selected_pages is strictly ascending (so free of duplicates) and
\* every element lies in 1..page_count.
C1_SelectionValid ==
    pc \in {"start", "export", "gen"} =>
        \A i \in DOMAIN files :
            /\ StrictlyAscending(files[i].selected_pages)
            /\ \A j \in DOMAIN files[i].selected_pages :
                   /\ 1 <= files[i].selected_pages[j]
                   /\ files[i].selected_pages[j] <= files[i].page_count

\* the last file's pass has ended with its checkboxes returning two ticked pages
\* or more, and a file holds two selected pages or more
C1_Witness ==
    /\ pc = "export"
    /\ Cardinality(checked) >= 2
    /\ \E i \in DOMAIN files : Len(files[i].selected_pages) >= 2

\* C4 as claimed: when a typed range is applied to a file whose selection is S, the
\* selection at the end of that file's pass is S united with the pages the text
\* names: no page of S is missing, every page named by an integer token or by a
\* range token a-b with a <= b is there, and no page is there that is neither in
\* S nor spanned by a token.
C4_UnionAtEndOfRun ==
    [][(pc = "cb" /\ rng # <<>> /\ pc' \in {"btn", "export"}) =>
          /\ ToSet(selBefore) \cup NamedAscending(rng, files[fi].page_count)
                 \subseteq ToSet(files'[fi].selected_pages)
          /\ ToSet(files'[fi].selected_pages)
                 \subseteq ToSet(selBefore) \cup NamedSpan(rng, files[fi].page_count)]_vars

\* C4 amended: right after the typed range is handled, before the checkbox loop of
\* the same pass, the selection is S united with the pages the text names, sorted;
\* the checkbox loop that follows may still untick any of them or tick others.
C4_UnionAfterRanges ==
    (pc = "cb" /\ rng # <<>>) =>
        /\ ToSet(selBefore) \cup NamedAscending(rng, files[fi].page_count)
               \subseteq ToSet(files[fi].selected_pages)
        /\ ToSet(files[fi].selected_pages)
               \subseteq ToSet(selBefore) \cup NamedSpan(rng, files[fi].page_count)
        /\ StrictlyAscending(files[fi].selected_pages)

\* a text naming a page outside S was applied to a selection S that is not empty
C4_Witness ==
    /\ pc = "cb"
    /\ rng # <<>>
    /\ selBefore # <<>>
    /\ NamedAscending(rng, files[fi].page_count) \ ToSet(selBefore) # {}
    /\ ToSet(selBefore) \ NamedAscending(rng, files[fi].page_count) # {}

\* C6: 'First N' leaves every file with exactly 1..min(N, page_count), and the
\* '1st 3' button leaves its file with exactly 1..min(3, page_count).
C6_FirstN ==
    /\ (pc = "g_clear" /\ lastN > 0) =>
           \A i \in DOMAIN files :
               /\ Len(files[i].selected_pages) =
                      (IF lastN < files[i].page_count THEN lastN ELSE files[i].page_count)
               /\ \A j \in DOMAIN files[i].selected_pages : files[i].selected_pages[j] = j
    /\ (pc = "rng" /\ btn = "first3") =>
           /\ Len(files[fi].selected_pages) =
                  (IF 3 < files[fi].page_count THEN 3 ELSE files[fi].page_count)
           /\ \A j \in DOMAIN files[fi].selected_pages : files[fi].selected_pages[j] = j

\* 'First N' was applied with N above the page count of one file and within that
\* of another
C6_Witness ==
    /\ pc = "g_clear"
    /\ \E i, k \in DOMAIN files : files[i].page_count < lastN /\ lastN <= files[k].page_count

\* C8 as claimed: when a selected page raises in the rasterizer, the call still
\* returns the images of the other selected pages, in ascending order, and the
\* run goes on.
C8_PartialResult ==
    (failing \cap ToSet(pages_to_keep) # {}) =>
        /\ ~raised
        /\ pc = "gen"
        /\ StrictlyAscending(images)
        /\ ToSet(images) = ToSet(pages_to_keep) \ failing

IsBad(uf) == (uf.name.ext = ".docx" /\ ~uf.convertible) \/ ~uf.readable

\* C9: an ingest leaves the entries already in the session as they were; a document
\* that fails to convert or to read gets no entry and an error naming it; every
\* other document of the batch has its key in the session afterwards.
C9_IngestIsolation ==
    [][(pc = "start" /\ pc' = "ingested") =>
          /\ Len(files') >= Len(files)
          /\ \A i \in DOMAIN files : files'[i] = files[i]
          /\ \A k \in DOMAIN uploaded' :
                IF IsBad(uploaded'[k])
                THEN /\ \A i \in DOMAIN files' : files'[i].bytes_pdf # uploaded'[k].id
                     /\ \E e \in DOMAIN errors' : errors'[e].name = uploaded'[k].name
                ELSE HasKey(files', make_key(uploaded'[k].name, uploaded'[k].size))
          /\ \A e \in DOMAIN errors' : \E k \in DOMAIN uploaded' :
                IsBad(uploaded'[k]) /\ errors'[e].name = uploaded'[k].name]_vars

\* a batch whose first document fails and whose second is ingested, into a session
\* that already held an entry with pages selected
C9_Witness ==
    /\ pc = "ingested"
    /\ Len(uploaded) = 2
    /\ IsBad(uploaded[1])
    /\ ~IsBad(uploaded[2])
    /\ Len(errors) = 1
    /\ Len(files) = 2
    /\ files[1].selected_pages # <<>>
    /\ files[2].bytes_pdf = uploaded[2].id

\* C10: a file with no page selected gets no output, with 'skip files with no
\* selected pages' on or off, no exception escapes its turn, and the loop goes on
\* to the next file; rasterizing an empty list returns no image.
C10_EmptySelection ==
    [][(pc = "gen" /\ fi <= Len(files) /\ files[fi].selected_pages = <<>>
            /\ <<pc, fi>>' # <<pc, fi>>) =>
          /\ out_list' = out_list
          /\ ~raised'
          /\ images' = <<>>
          /\ pc' = "gen"
          /\ fi' = fi + 1]_vars

\* with skipping off, the loop has passed a file with no page selected and then
\* produced the output of a later file
C10_Witness ==
    /\ pc = "gen"
    /\ ~skip_empty
    /\ fi > Len(files)
    /\ Len(files) = 2
    /\ files[1].selected_pages = <<>>
    /\ Len(out_list) = 1
    /\ out_list[1].key = files[2].key

\* C2: handling a typed text never raises; the selection it was applied to is kept;
\* every page of 1..page_count named by an integer token or by a range token a-b
\* with a <= b is added; a token that is neither adds nothing, and nothing is
\* added that no parsed token spans; '1-3,6,9-10' and '1-3,abc,6' on an empty
\* selection of a 12-page document give [1,2,3,6,9,10] and [1,2,3,6].
C2_ParseBestEffort ==
    (pc = "sel1" /\ rng # <<>>) =>
        LET sel == files[1].selected_pages
            page_count == files[1].page_count
        IN  /\ ~raised
            /\ StrictlyAscending(sel)
            /\ ToSet(selBefore) \subseteq ToSet(sel)
            /\ NamedAscending(rng, page_count) \subseteq ToSet(sel)
            /\ ToSet(sel) \subseteq ToSet(selBefore) \cup NamedSpan(rng, page_count)
            /\ (rng = Example1 /\ selBefore = <<>> /\ page_count = ExamplePages)
                   => sel = <<1, 2, 3, 6, 9, 10>>
            /\ (rng = Example2 /\ selBefore = <<>> /\ page_count = ExamplePages)
                   => sel = <<1, 2, 3, 6>>

\* '1-3,abc,6' was applied to the empty selection of the 12-page document
C2_Witness ==
    /\ pc = "sel1"
    /\ rng = Example2
    /\ selBefore = <<>>
    /\ files[1].page_count = ExamplePages
    /\ Len(files[1].selected_pages) = 4

\* C3 as claimed: a range token 'a-b' selects min(a, b)..max(a, b) within
\* 1..page_count, also when a > b.
C3_ReversedRange ==
    (pc = "sel1" /\ rng # <<>>) =>
        ToSet(files[1].selected_pages) =
            ToSet(selBefore) \cup NamedSpan(rng, files[1].page_count)

\* C5: a directive applied a second time, right after itself, leaves the selection
\* as its first application left it.
C5_Idempotent ==
    pc = "sel2" => files[1].selected_pages = selBefore

\* '1-3,6,9-10' was applied twice, starting from the empty selection of the
\* 12-page document
C5_Witness ==
    /\ pc = "sel2"
    /\ rng = Example1
    /\ files[1].selected_pages = <<1, 2, 3, 6, 9, 10>>

\* C7: when no selected page raises, the rasterizer returns one image for each
\* distinct index of pages_to_keep within 1..page_count, in ascending order.
C7_RasterOrder ==
    (pc = "ras1" /\ failing \cap ToSet(pages_to_keep) = {}) =>
        /\ ~raised
        /\ StrictlyAscending(images)
        /\ ToSet(images) = {p \in ToSet(pages_to_keep) : 1 <= p /\ p <= files[1].page_count}

\* a descending list with an index past the last page gave two images
C7_Witness ==
    /\ pc = "ras1"
    /\ ~raised
    /\ Len(pages_to_keep) >= 3
    /\ pages_to_keep[1] > files[1].page_count
    /\ pages_to_keep[2] > pages_to_keep[3]
    /\ Len(images) = 2

\* C11 as claimed: for one rotated tile, a higher coverage never gives a larger
\* stride: with c1 < c2 the strides step_x and step_y computed with c2 are at
\* most those computed with c1.
C11_StrideNonIncreasing ==
    (wm.prev_coverage # 0 /\ wm.prev_coverage < wm.coverage) =>
        /\ wm.step_x <= wm.prev_step_x
        /\ wm.step_y <= wm.prev_step_y

\* C11 amended: for one rotated tile, a higher coverage never gives a smaller
\* stride: with c1 < c2 the strides step_x and step_y computed with c2 are at
\* least those computed with c1, and no stride is below 40.
C11_StrideNonDecreasing ==
    /\ (wm.prev_coverage # 0 /\ wm.prev_coverage < wm.coverage) =>
           /\ wm.prev_step_x <= wm.step_x
           /\ wm.prev_step_y <= wm.step_y
    /\ wm # NoTile => wm.step_x >= MinStride /\ wm.step_y >= MinStride

\* a tile was stamped with a coverage and then with a higher one, and both
\* strides came out larger the second time
C11_Witness ==
    /\ wm.prev_coverage # 0
    /\ wm.prev_coverage < wm.coverage
    /\ wm.prev_step_x < wm.step_x
    /\ wm.prev_step_y < wm.step_y

\* the entry of the session stored under a key
EntryOf(fs, key) == fs[CHOOSE i \in DOMAIN fs : fs[i].key = key]

\* the outputs of out_list as named image sequences, each with its sort key: the
\* lower-cased output name, or the upload size of the file it was made from
KeyedOutputs(out, fs, order) ==
    [i \in DOMAIN out |->
        [k |-> IF order = "name" THEN ToLower(out[i].out_name)
               ELSE [inf |-> FALSE, val |-> EntryOf(fs, out[i].key).size],
         item |-> [out_name |-> out[i].out_name,
                   pages |-> PagesOf(EntryOf(fs, out[i].key), out[i].pdf_bytes)]]]

\* C12: after a 'Generate Previews' run with merging on and order 'by name', the
\* merged images are the image sequences of all generated documents, one after
\* the other in the order of their output names (compared without regard to
\* case), each sequence in its own order, equal names in encounter order.
C12_MergeByName ==
    (pc = "start" /\ ~raised /\ merge_all /\ merge_order = "name") =>
        merged = Flatten(StableSort(KeyedOutputs(out_list, files, "name"), <<>>, "name"))

\* the position of a document in the session
FileIndex(fs, doc) == CHOOSE i \in DOMAIN fs : fs[i].bytes_pdf = doc

\* C13: after a 'Generate Previews' run with merging on and order 'by file size',
\* whatever the file names and the suffix, the documents follow one another in
\* the merged images by non-decreasing upload size, and documents of one size in
\* encounter order.
C13_MergeBySize ==
    (pc = "start" /\ ~raised /\ merge_all /\ merge_order = "size") =>
        \A i \in DOMAIN merged, j \in DOMAIN merged :
            (i < j /\ merged[i].doc # merged[j].doc) =>
                LET a == files[FileIndex(files, merged[i].doc)]
                    b == files[FileIndex(files, merged[j].doc)]
                IN  \/ a.size < b.size
                    \/ /\ a.size = b.size
                       /\ FileIndex(files, merged[i].doc) < FileIndex(files, merged[j].doc)

RECURSIVE SumPages(_)
\* the pages of all outputs of out_list together
SumPages(out) ==
    IF out = <<>> THEN 0 ELSE Len(Head(out).pdf_bytes) + SumPages(Tail(out))

\* C14: after a 'Generate Previews' run with merging on, the merged images are as
\* many as the pages of all outputs of out_list together, also when two files of
\* the session share a base name and so an output name.
C14_MergedCount ==
    (pc = "start" /\ ~raised /\ merge_all) => Len(merged) = SumPages(out_list)

\* C15: when a file's pass has ended, its selected_pages holds exactly the pages
\* whose checkbox returned true in this run, whatever the global helpers, the
\* buttons and the typed ranges did to it before in the same run.
C15_SelectionIsTicked ==
    /\ pc = "export" => ToSet(files[fi].selected_pages) = checked
    /\ (pc = "btn" /\ fi > 1) => ToSet(files[fi - 1].selected_pages) = checked

\* the directives of the last pass left page 1 selected, the checkbox of page 1
\* returned false and that of page 2 alone true: the selection is page 2
C15_Witness ==
    /\ pc = "export"
    /\ selBefore = <<1>>
    /\ checked = {2}
    /\ files[fi].selected_pages = <<2>>

====
